---- MODULE Spec2Model ----
(***************************************************************************)
(* Model of the evidence matcher find_context_matches (src/pdf_context.py) *)
(* A Python str is a sequence of one-character strings; a score is the     *)
(* exact fraction count / (words + 1) kept as numerator and denominator    *)
(* (for operands this small the float quotient orders and compares exactly *)
(* like the fraction).                                                     *)
(***************************************************************************)
EXTENDS Integers, Sequences, FiniteSets

VARIABLES pdfs, context, top_k, results, ret, pdfs_in, reader_calls,
          pages_scanned, called, repeated, prev_ret, prev_reader_calls,
          raised, split_text, units, calls, pdfs_first, reader_log,
          users_file, users_before, auth_call, last_password

vars == <<pdfs, context, top_k, results, ret, pdfs_in, reader_calls,
          pages_scanned, called, repeated, prev_ret, prev_reader_calls,
          raised, split_text, units, calls, pdfs_first, reader_log,
          users_file, users_before, auth_call, last_password>>

----------------------------------------------------------------------------
(* Bounds of the model *)

MaxDocs == 2

MaxTopK == 2

MaxTextLen == 4

----------------------------------------------------------------------------
(* Characters and the str methods the matcher uses *)

UpperCase == <<"A", "B", "C", "D", "E", "F", "G", "H", "I", "J", "K", "L", "M",
               "N", "O", "P", "Q", "R", "S", "T", "U", "V", "W", "X", "Y", "Z">>

LowerCase == <<"a", "b", "c", "d", "e", "f", "g", "h", "i", "j", "k", "l", "m",
               "n", "o", "p", "q", "r", "s", "t", "u", "v", "w", "x", "y", "z">>

Digits == {"0", "1", "2", "3", "4", "5", "6", "7", "8", "9"}

Range(s) == {s[i] : i \in DOMAIN s}

UpperSet == Range(UpperCase)

LowerOf == [c \in UpperSet |-> LowerCase[CHOOSE i \in DOMAIN UpperCase : UpperCase[i] = c]]

\* str.lower() on one character
LowerChar(c) == IF c \in UpperSet THEN LowerOf[c] ELSE c

\* str.lower()
Lower(s) == [i \in DOMAIN s |-> LowerChar(s[i])]

WordChars == UpperSet \cup Range(LowerCase) \cup Digits \cup {"_"}

\* the class \w of the re module: letters, digits and the underscore
IsWordChar(c) == c \in WordChars

\* the class \s of the re module, also the separators of str.split() and str.strip()
IsSpace(c) == c \in {" ", "\n", "\t"}

\* the lookbehind class [.!?]
IsTerminator(c) == c \in {".", "!", "?"}

RECURSIVE FindAllFrom(_, _, _, _)
FindAllFrom(s, i, cur, acc) ==
  IF i > Len(s)
  THEN IF cur = <<>> THEN acc ELSE Append(acc, cur)
  ELSE IF IsWordChar(s[i])
       THEN FindAllFrom(s, i + 1, Append(cur, s[i]), acc)
       ELSE FindAllFrom(s, i + 1, <<>>, IF cur = <<>> THEN acc ELSE Append(acc, cur))

\* re.findall(r"\w+", s): the maximal runs of word characters, in order, duplicates kept
FindAllWords(s) == FindAllFrom(s, 1, <<>>, <<>>)

\* keywords = re.findall(r"\w+", context.lower())
Keywords(ctx) == FindAllWords(Lower(ctx))

\* a separator \s in place of \s+: one whitespace character is taken
SkipOneSpace(s, i) == i + 1

RECURSIVE SkipSpace(_, _)
SkipSpace(s, i) == IF i <= Len(s) /\ IsSpace(s[i]) THEN SkipSpace(s, i + 1) ELSE i

RECURSIVE SplitFrom(_, _, _, _)
SplitFrom(s, i, cur, acc) ==
  IF i > Len(s)
  THEN Append(acc, cur)
  ELSE IF i > 1 /\ IsTerminator(s[i - 1]) /\ IsSpace(s[i])
       THEN SplitFrom(s, SkipSpace(s, i), <<>>, Append(acc, cur))
       ELSE SplitFrom(s, i + 1, Append(cur, s[i]), acc)

\* re.split(r'(?<=[.!?])\s+', text)
SplitSentences(text) == SplitFrom(text, 1, <<>>, <<>>)

\* whole-word matching: kw is one of the words of low
ContainsWholeWord(low, kw) == kw \in Range(FindAllWords(low))

\* kw in low
Contains(low, kw) ==
  \E i \in 1..(Len(low) - Len(kw) + 1) : SubSeq(low, i, i + Len(kw) - 1) = kw

\* len(sent.split()): the number of maximal runs of non-whitespace characters
WordCount(sent) ==
  Cardinality({i \in DOMAIN sent : /\ ~IsSpace(sent[i])
                                    /\ (i = 1 \/ IsSpace(sent[i - 1]))})

RECURSIVE LStrip(_)
LStrip(s) == IF s # <<>> /\ IsSpace(Head(s)) THEN LStrip(Tail(s)) ELSE s

RECURSIVE RStrip(_)
RStrip(s) ==
  IF s # <<>> /\ IsSpace(s[Len(s)]) THEN RStrip(SubSeq(s, 1, Len(s) - 1)) ELSE s

\* the sentence as it is, strip() left out
NotStripped(s) == s

\* sent.strip()
Strip(s) == RStrip(LStrip(s))

----------------------------------------------------------------------------
(* The page texts and the queries the model draws from *)

\* 'The patient is homebound. The patient needs skilled nursing care.'
TxtScenario ==
  <<"T", "h", "e", " ", "p", "a", "t", "i", "e", "n", "t", " ", "i", "s",
    " ", "h", "o", "m", "e", "b", "o", "u", "n", "d", ".", " ", "T", "h",
    "e", " ", "p", "a", "t", "i", "e", "n", "t", " ", "n", "e", "e", "d",
    "s", " ", "s", "k", "i", "l", "l", "e", "d", " ", "n", "u", "r", "s",
    "i", "n", "g", " ", "c", "a", "r", "e", ".">>

\* 'a b home? Home care. A_b home a!'
TxtThree ==
  <<"a", " ", "b", " ", "h", "o", "m", "e", "?", " ", "H", "o", "m", "e", " ",
    "c", "a", "r", "e", ".", " ", "A", "_", "b", " ", "h", "o", "m", "e", " ",
    "a", "!">>

\* ' a.  \nB a '
TxtSpaces ==
  <<" ", "a", ".", " ", " ", "\n", "B", " ", "a", " ">>

\* 'b b. '
TxtTrail ==
  <<"b", " ", "b", ".", " ">>

\* ' \n'
QWhitespace ==
  <<" ", "\n">>

\* '!!!'
QPunct ==
  <<"!", "!", "!">>

\* '_'
QUnderscore ==
  <<"_">>

\* 'homebound skilled'
QScenario ==
  <<"h", "o", "m", "e", "b", "o", "u", "n", "d", " ", "s", "k", "i", "l",
    "l", "e", "d">>

\* 'home'
QHome ==
  <<"h", "o", "m", "e">>

\* 'home home'
QRepeat ==
  <<"h", "o", "m", "e", " ", "h", "o", "m", "e">>

\* 'a B,b'
QMixed ==
  <<"a", " ", "B", ",", "b">>

PageTexts == {TxtScenario, TxtThree, TxtSpaces, TxtTrail, <<>>}

Queries == {<<>>, QWhitespace, QPunct, QUnderscore, QScenario, QHome, QRepeat, QMixed}

----------------------------------------------------------------------------
(* Scores: count / (words + 1) as an exact fraction *)

\* the score without the + 1 of the denominator
ScoreOfNoPlusOne(count, words) == [num |-> count, den |-> words]

\* score = count / (words + 1)
ScoreOf(count, words) == [num |-> count, den |-> words + 1]

ScoreLess(a, b) == a.num * b.den < b.num * a.den

ScoreEq(a, b) == a.num * b.den = b.num * a.den

ScoreLeq(a, b) == a.num * b.den <= b.num * a.den

----------------------------------------------------------------------------
(* The scan of one document *)

\* count = sum(1 for kw in keywords if kw in low): one per entry of the list
CountHits(low, keywords) ==
  Cardinality({i \in DOMAIN keywords : Contains(low, keywords[i])})

\* a guard that lets a sentence without any keyword through
EmitsAlways(count) == count >= 0

\* if count > 0
Emits(count) == count > 0

\* the body of the loop over sentences: the matches one sentence appends
ScanSentence(pdf_name, page_idx, sent, keywords) ==
  LET low   == Lower(sent)
      count == CountHits(low, keywords)
  IN  IF Emits(count)
      THEN << [pdf_name |-> pdf_name,
               page     |-> page_idx,
               score    |-> ScoreOf(count, WordCount(sent)),
               text     |-> Strip(sent)] >>
      ELSE <<>>

RECURSIVE ScanSentences(_, _, _, _)
ScanSentences(pdf_name, page_idx, sentences, keywords) ==
  IF sentences = <<>>
  THEN <<>>
  ELSE ScanSentence(pdf_name, page_idx, Head(sentences), keywords)
       \o ScanSentences(pdf_name, page_idx, Tail(sentences), keywords)

\* one iteration of the loop over enumerate(page_texts); page_idx is zero-based
ScanText(pdf_name, page_idx, text, keywords) ==
  IF text = <<>>
  THEN <<>>
  ELSE ScanSentences(pdf_name, page_idx, SplitSentences(text), keywords)

KeywordLists == {Keywords(q) : q \in Queries}

\* ScanText tabulated for the page texts and queries of the model, so that it is
\* evaluated once for each pair; document name and page index are filled in later
ScanTable ==
  [t \in PageTexts |-> [kws \in KeywordLists |-> ScanText("", 0, t, kws)]]

\* ScanText, read from the table where the table has the pair
ScanPage(pdf_name, page_idx, text, keywords) ==
  IF text \in PageTexts /\ keywords \in KeywordLists
  THEN [i \in DOMAIN ScanTable[text][keywords] |->
          [ScanTable[text][keywords][i] EXCEPT !.pdf_name = pdf_name, !.page = page_idx]]
  ELSE ScanText(pdf_name, page_idx, text, keywords)

RECURSIVE ScanInOrder(_, _, _, _)
ScanInOrder(pdf_name, texts, i, keywords) ==
  IF i > Len(texts)
  THEN <<>>
  ELSE ScanPage(pdf_name, i - 1, texts[i], keywords)
       \o ScanInOrder(pdf_name, texts, i + 1, keywords)

\* a page loop that numbers the non-empty pages only: enumerate(t for t in page_texts if t)
ScanPagesCompacted(pdf_name, page_texts, i, keywords) ==
  ScanInOrder(pdf_name, SelectSeq(page_texts, LAMBDA t : t # <<>>), i, keywords)

RECURSIVE ScanPages(_, _, _, _)
ScanPages(pdf_name, page_texts, i, keywords) ==
  IF i > Len(page_texts)
  THEN <<>>
  ELSE ScanPage(pdf_name, i - 1, page_texts[i], keywords)
       \o ScanPages(pdf_name, page_texts, i + 1, keywords)

\* what reader.pages[i].extract_text() raises, if anything (i zero-based): an
\* index past the reader's pages is an IndexError, a page that cannot be read
\* raises from extract_text()
RaisedBy(reader, i) ==
  IF i + 1 > Len(reader) THEN "IndexError"
  ELSE IF reader[i + 1].kind = "raise" THEN "Exception" ELSE "none"

\* except IndexError: a handler that lets the errors of extract_text() through
CatchesIndexErrorOnly(exc) == exc = "IndexError"

\* except Exception:
Catches(exc) == exc \in {"IndexError", "Exception"}

\* the exception leaves the try statement
Escapes(reader, i) == RaisedBy(reader, i) # "none" /\ ~Catches(RaisedBy(reader, i))

\* text = reader.pages[i].extract_text() or "", "" when it raises (i zero-based;
\* an index past the reader's pages raises IndexError inside the try)
ExtractText(reader, i) ==
  IF i + 1 > Len(reader)
  THEN <<>>
  ELSE IF reader[i + 1].kind = "text" THEN reader[i + 1].text ELSE <<>>

\* the list built by the loop over range(info.get("pages", 0))
ExtractAll(info) == [i \in 1..info.pages |-> ExtractText(info.reader, i - 1)]

\* if page_texts is None and not reader: continue
Skipped(info) == ~info.has_page_texts /\ ~info.has_reader

\* page_texts is None and the reader is there: the texts are extracted
Populates(info) == ~info.has_page_texts /\ info.has_reader

\* the local page_texts the scan loop enumerates
LocalPageTexts(info) ==
  IF info.has_page_texts THEN info.page_texts
  ELSE IF info.has_reader THEN ExtractAll(info) ELSE <<>>

\* a cache that keeps the non-empty texts only, so that later pages move up
StoredNonEmpty(info) == SelectSeq(ExtractAll(info), LAMBDA t : t # <<>>)

\* the value assigned by info["page_texts"] = page_texts
StoredPageTexts(info) == ExtractAll(info)

\* an exception leaves the extraction loop of this document
DocEscapes(info) ==
  Populates(info) /\ \E i \in 0..(info.pages - 1) : Escapes(info.reader, i)

\* the extracted texts used for this call only, line 36 left out
InfoNotStored(info) == info

\* the document record after the loop body has run for it
InfoAfter(info) ==
  IF Populates(info)
  THEN [info EXCEPT !.has_page_texts = TRUE, !.page_texts = StoredPageTexts(info)]
  ELSE info

RECURSIVE ScanDocs(_, _, _)
ScanDocs(docs, d, keywords) ==
  IF d > Len(docs)
  THEN <<>>
  ELSE (IF Skipped(docs[d].info)
        THEN <<>>
        ELSE ScanPages(docs[d].key, LocalPageTexts(docs[d].info), 1, keywords))
       \o ScanDocs(docs, d + 1, keywords)

RECURSIVE SumSeq(_)
SumSeq(s) == IF s = <<>> THEN 0 ELSE Head(s) + SumSeq(Tail(s))

\* the reader invocations of the extraction loop of one document, in order: one
\* for each i of range(info.get("pages", 0)), up to index last
DocLog(doc, last) ==
  IF Populates(doc.info)
  THEN [n \in 1..(last + 1) |-> [pdf_name |-> doc.key, page |-> n - 1]]
  ELSE <<>>

RECURSIVE ReaderLog(_, _)
\* the reader invocations of one call that scans, document after document
ReaderLog(docs, d) ==
  IF d > Len(docs)
  THEN <<>>
  ELSE DocLog(docs[d], docs[d].info.pages - 1) \o ReaderLog(docs, d + 1)

\* number of extract_text() invocations of one call that scans
ReaderCalls(docs) ==
  SumSeq([d \in DOMAIN docs |->
            IF Populates(docs[d].info) THEN docs[d].info.pages ELSE 0])

\* number of iterations of the loop over enumerate(page_texts) of one call that scans
PagesScanned(docs) ==
  SumSeq([d \in DOMAIN docs |->
            IF Skipped(docs[d].info) THEN 0 ELSE Len(LocalPageTexts(docs[d].info))])

----------------------------------------------------------------------------
(* Sort and truncate *)

\* where a stable descending sort puts m: after every element whose score is >= m's
InsertDesc(sorted, m) ==
  LET below == {j \in DOMAIN sorted : ScoreLess(sorted[j].score, m.score)}
      pos   == IF below = {} THEN Len(sorted) + 1
               ELSE CHOOSE j \in below : \A k \in below : j <= k
  IN  SubSeq(sorted, 1, pos - 1) \o <<m>> \o SubSeq(sorted, pos, Len(sorted))

\* results.sort(key=...) without reverse=True: stable, ascending
InsertAsc(sorted, m) ==
  LET above == {j \in DOMAIN sorted : ScoreLess(m.score, sorted[j].score)}
      pos   == IF above = {} THEN Len(sorted) + 1
               ELSE CHOOSE j \in above : \A k \in above : j <= k
  IN  SubSeq(sorted, 1, pos - 1) \o <<m>> \o SubSeq(sorted, pos, Len(sorted))

RECURSIVE SortAscFrom(_, _, _)
SortAscFrom(s, i, sorted) ==
  IF i > Len(s) THEN sorted ELSE SortAscFrom(s, i + 1, InsertAsc(sorted, s[i]))

SortAscending(s) == SortAscFrom(s, 1, <<>>)

\* the results left in scan order, the sort forgotten
SortForgotten(s) == s

\* sorted(results, key=...)[::-1]: ascending and then reversed, which turns the
\* order of equal scores around
SortAscendingReversed(s) ==
  [i \in DOMAIN s |-> SortAscending(s)[Len(s) + 1 - i]]

RECURSIVE SortFrom(_, _, _)
SortFrom(s, i, sorted) ==
  IF i > Len(s) THEN sorted ELSE SortFrom(s, i + 1, InsertDesc(sorted, s[i]))

\* results.sort(key=lambda x: x["score"], reverse=True): stable, descending
SortByScore(s) == SortFrom(s, 1, <<>>)

\* results[:top_k + 1]
TruncateOneMore(s, k) == SubSeq(s, 1, IF k + 1 < Len(s) THEN k + 1 ELSE Len(s))

\* results[:top_k], with Python's meaning of a negative bound
Truncate(s, k) ==
  IF k >= 0
  THEN SubSeq(s, 1, IF k < Len(s) THEN k ELSE Len(s))
  ELSE SubSeq(s, 1, IF Len(s) + k > 0 THEN Len(s) + k ELSE 0)

----------------------------------------------------------------------------
(* find_context_matches *)

\* if not context or not pdfs
NoInput(docs, ctx) == ctx = <<>> \/ docs = <<>>

\* the guard on the keyword list left out
NoKeywordsIgnored(keywords) == FALSE

\* if not keywords
NoKeywords(keywords) == keywords = <<>>

\* an early return that hands back a placeholder match instead of nothing
PlaceholderResult ==
  << [pdf_name |-> "", page |-> 0, score |-> [num |-> 0, den |-> 1], text |-> <<>>] >>

\* return []
EmptyResult == <<>>

\* the outcome of a call that returns early: nothing scanned, nothing changed
EarlyOutcome(docs) ==
  [ret |-> EmptyResult, results |-> <<>>, pdfs |-> docs,
   reader_calls |-> 0, pages_scanned |-> 0, raised |-> FALSE,
   reader_log |-> <<>>]

\* the outcome of a call an exception propagates out of: nothing is returned;
\* the documents before the one that raised keep what the loop stored in them
RaisedOutcome(docs) ==
  LET stop == CHOOSE d \in DOMAIN docs :
                /\ DocEscapes(docs[d].info)
                /\ \A e \in 1..(d - 1) : ~DocEscapes(docs[e].info)
      before == SubSeq(docs, 1, stop - 1)
      page == CHOOSE i \in 0..(docs[stop].info.pages - 1) :
                /\ Escapes(docs[stop].info.reader, i)
                /\ \A j \in 0..(i - 1) : ~Escapes(docs[stop].info.reader, j)
  IN  [ret           |-> <<>>,
       results       |-> <<>>,
       pdfs          |-> [d \in DOMAIN docs |->
                            IF d < stop
                            THEN [docs[d] EXCEPT !.info = InfoAfter(docs[d].info)]
                            ELSE docs[d]],
       reader_calls  |-> ReaderCalls(before) + page + 1,
       pages_scanned |-> PagesScanned(before),
       raised        |-> TRUE,
       reader_log    |-> ReaderLog(before, 1) \o DocLog(docs[stop], page)]

\* the outcome of a call that runs the loops, the sort and the truncation
ScanOutcome(docs, keywords, k) ==
  LET emitted == ScanDocs(docs, 1, keywords)
  IN  [ret           |-> Truncate(SortByScore(emitted), k),
       results       |-> emitted,
       pdfs          |-> [d \in DOMAIN docs |->
                            [docs[d] EXCEPT !.info = InfoAfter(docs[d].info)]],
       reader_calls  |-> ReaderCalls(docs),
       pages_scanned |-> PagesScanned(docs),
       raised        |-> FALSE,
       reader_log    |-> ReaderLog(docs, 1)]

\* find_context_matches(pdfs, context, top_k): what it returns and what it leaves
FindContextMatches(docs, ctx, k) ==
  IF NoInput(docs, ctx)
  THEN EarlyOutcome(docs)
  ELSE IF NoKeywords(Keywords(ctx))
       THEN EarlyOutcome(docs)
       ELSE IF \E d \in DOMAIN docs : DocEscapes(docs[d].info)
            THEN RaisedOutcome(docs)
            ELSE ScanOutcome(docs, Keywords(ctx), k)

----------------------------------------------------------------------------
(* The documents the model draws from *)

\* what extract_text() does on one page of a reader: a text, None, or an exception
PageOf(txt) == [kind |-> "text", text |-> txt]

PageNone == [kind |-> "none", text |-> <<>>]

PageRaises == [kind |-> "raise", text |-> <<>>]

\* extract_pdf_texts: the page texts of a reader, "" for a page that raises
ExtractPdfTexts(reader) == [i \in 1..Len(reader) |-> ExtractText(reader, i - 1)]

\* build_pdf_info(reader, page_texts)
BuildPdfInfo(reader, page_texts) ==
  [has_reader |-> TRUE, reader |-> reader, pages |-> Len(page_texts),
   has_page_texts |-> TRUE, page_texts |-> page_texts]

\* a document as the application builds it: reader, page count, extracted texts
InfoBuilt ==
  BuildPdfInfo(<<PageOf(TxtScenario)>>, ExtractPdfTexts(<<PageOf(TxtScenario)>>))

\* extracted texts only, one of them empty, no reader
InfoTexts ==
  [has_reader |-> FALSE, reader |-> <<>>, pages |-> 4,
   has_page_texts |-> TRUE, page_texts |-> <<TxtThree, TxtTrail, <<>>, TxtSpaces>>]

\* a reader and no page_texts; pages counts one page more than the reader has
InfoLazy ==
  [has_reader |-> TRUE,
   reader |-> <<PageOf(TxtSpaces), PageRaises, PageNone, PageOf(TxtThree)>>,
   pages |-> 5, has_page_texts |-> FALSE, page_texts |-> <<>>]

\* neither page_texts nor a reader
InfoBare ==
  [has_reader |-> FALSE, reader |-> <<>>, pages |-> 0,
   has_page_texts |-> FALSE, page_texts |-> <<>>]

DocInfos == {InfoBuilt, InfoTexts, InfoLazy, InfoBare}

DocNames == <<"doc1", "doc2", "doc3", "doc4">>

\* the documents mappings: up to MaxDocs entries, in insertion order
DocMappings ==
  UNION {{[d \in 1..n |-> [key |-> DocNames[d], info |-> f[d]]] : f \in [1..n -> DocInfos]}
         : n \in 0..MaxDocs}

\* top_k: int = 5
DefaultTopK == 5

\* the bounds a caller passes: the positive ones and a negative one
TopKs == {-1} \cup 1..MaxTopK

----------------------------------------------------------------------------
(* Calls in progress: the position of each of two concurrent calls in the code *)

Procs == {1, 2}

\* a call that has not started: its arguments and empty locals
NewCall(ctx, k) ==
  [pc |-> "start", context |-> ctx, top_k |-> k, d |-> 1, page_texts |-> <<>>,
   results |-> <<>>, ret |-> <<>>, saw_partial |-> FALSE, extracted |-> 0]

\* no concurrent calls are made
NoCalls == [p \in Procs |-> NewCall(<<>>, DefaultTopK)]

----------------------------------------------------------------------------
(* The user store of auth.py: the file USERS_FILE and the calls made on it *)

\* a dict without any key
NoUsers == [u \in {} |-> [pw_hash |-> <<>>]]

\* os.path.exists(USERS_FILE) is false
FileMissing == [exists |-> FALSE, valid |-> FALSE, users |-> NoUsers]

\* the file is there and json.load raises on it: an empty file, as a write that
\* was cut off after open(USERS_FILE, "w") leaves it
FileCorrupt == [exists |-> TRUE, valid |-> FALSE, users |-> NoUsers]

\* no call of auth.py has been made
NoAuthCall ==
  [op |-> "none", username |-> <<>>, password |-> <<>>, raised |-> "none", ret |-> FALSE]

----------------------------------------------------------------------------
(* The caller: it holds a documents mapping and calls the matcher on it *)

Init ==
  /\ pdfs \in DocMappings
  /\ context = <<>>
  /\ top_k = DefaultTopK
  /\ results = <<>>
  /\ ret = <<>>
  /\ pdfs_in = pdfs
  /\ reader_calls = 0
  /\ pages_scanned = 0
  /\ called = FALSE
  /\ repeated = FALSE
  /\ prev_ret = <<>>
  /\ prev_reader_calls = 0
  /\ raised = FALSE
  /\ split_text = <<>>
  /\ units = <<>>
  /\ calls = NoCalls
  /\ pdfs_first = pdfs
  /\ reader_log = <<>>
  /\ users_file = FileMissing
  /\ users_before = FileMissing
  /\ auth_call = NoAuthCall
  /\ last_password = NoUsers

\* one call find_context_matches(pdfs, ctx, k) on the mapping the caller holds
Invoke(ctx, k) ==
  \E out \in {FindContextMatches(pdfs, ctx, k)} :
      /\ context' = ctx
      /\ top_k' = k
      /\ pdfs_in' = pdfs
      /\ pdfs' = out.pdfs
      /\ results' = out.results
      /\ ret' = out.ret
      /\ reader_calls' = out.reader_calls
      /\ pages_scanned' = out.pages_scanned
      /\ raised' = out.raised
      /\ called' = TRUE
      /\ repeated' = (called /\ ctx = context /\ k = top_k)
      /\ prev_ret' = IF called /\ ctx = context /\ k = top_k THEN ret ELSE <<>>
      /\ prev_reader_calls' =
           IF called /\ ctx = context /\ k = top_k THEN reader_calls ELSE 0
      /\ reader_log' = reader_log \o out.reader_log
      /\ UNCHANGED <<split_text, units, calls, pdfs_first,
                     users_file, users_before, auth_call, last_password>>

\* find_context_matches(pdfs, context, top_k)
Call == \E ctx \in Queries : \E k \in TopKs : Invoke(ctx, k)

\* find_context_matches(pdfs, context), top_k left to its default
CallDefault == \E ctx \in Queries : Invoke(ctx, DefaultTopK)

Next == Call \/ CallDefault

Spec == Init /\ [][Next]_vars

----------------------------------------------------------------------------
(* Properties of find_context_matches *)

\* how often m occurs in the sequence s
Count(s, m) == Cardinality({i \in DOMAIN s : s[i] = m})

\* the multiset of the elements of s
BagOf(s) == [m \in Range(s) |-> Count(s, m)]

Zero == [num |-> 0, den |-> 1]

\* C1: for a positive top_k the returned sequence is the first min(top_k, n)
\* elements of a score-descending ordering of the n emitted matches: it has
\* that length, it holds emitted matches only, it is in descending order, no
\* emitted match that was left out scores strictly higher than a returned one,
\* and with top_k = 1 and three emitted matches the one returned has the
\* highest score.
C1_TopKOfDescending ==
  (called /\ top_k > 0) =>
    /\ Len(ret) = (IF top_k < Len(results) THEN top_k ELSE Len(results))
    /\ \A m \in Range(ret) : Count(ret, m) <= Count(results, m)
    /\ \A i \in 1..(Len(ret) - 1) : ~ScoreLess(ret[i].score, ret[i + 1].score)
    /\ \A m \in Range(results) :
         Count(results, m) > Count(ret, m) =>
           \A r \in Range(ret) : ScoreLeq(m.score, r.score)
    /\ (top_k = 1 /\ Len(results) = 3) =>
         /\ Len(ret) = 1
         /\ \A m \in Range(results) : ScoreLeq(m.score, ret[1].score)

\* top_k = 1, three sentences qualified, and the one returned was not the first
\* one emitted, which scored strictly lower
C1_Witness ==
  /\ called /\ top_k = 1 /\ Len(results) = 3 /\ Len(ret) = 1
  /\ ret[1] # results[1]
  /\ ScoreLess(results[1].score, ret[1].score)

\* C2: for a positive top_k the returned sequence is never longer than top_k.
C2_AtMostTopK == (called /\ top_k > 0) => Len(ret) <= top_k

\* more matches were emitted than top_k allows, and top_k of them were returned
C2_Witness == called /\ top_k > 0 /\ Len(results) > top_k /\ Len(ret) = top_k

\* C3: the returned sequence is sorted non-increasing by score: of two adjacent
\* returned matches the earlier one's score is at least the later one's.
C3_SortedNonIncreasing ==
  called => \A i \in 1..(Len(ret) - 1) : ScoreLeq(ret[i + 1].score, ret[i].score)

\* the matches were emitted out of score order and two of them, with different
\* scores, were returned
C3_Witness ==
  /\ called /\ Len(ret) >= 2
  /\ ScoreLess(ret[Len(ret)].score, ret[1].score)
  /\ \E i, j \in DOMAIN results : i < j /\ ScoreLess(results[i].score, results[j].score)

\* the scores of a returned sequence, in order
ScoresOf(r) == [i \in DOMAIN r |-> r[i].score]

SameScores(r1, r2) ==
  /\ Len(r1) = Len(r2)
  /\ \A i \in DOMAIN r1 : ScoreEq(r1[i].score, r2[i].score)

\* C4: repeating a keyword in the query changes no score: the call with
\* q + ' ' + w, w a token of q, returns matches with the same scores as the
\* call with q.
C4_RepeatedKeywordSameScores ==
  called =>
    \A w \in Range(FindAllWords(context)) :
      SameScores(FindContextMatches(pdfs_in, context \o <<" ">> \o w, top_k).ret, ret)

\* C5: the call leaves the caller's documents as they were, the page_texts
\* entry of every document included.
C5_DocumentsUnchanged == called => pdfs = pdfs_in

\* the two sentences of the scenario, as the matcher returns them
SentHomebound == SubSeq(TxtScenario, 1, 25)

SentSkilled == SubSeq(TxtScenario, 27, 65)

\* the call of the scenario: doc1 with the one page, "homebound skilled", top_k 5
ScenarioCall ==
  /\ called
  /\ Len(pdfs_in) = 1
  /\ pdfs_in[1].key = "doc1"
  /\ pdfs_in[1].info.has_page_texts
  /\ pdfs_in[1].info.page_texts = <<TxtScenario>>
  /\ context = QScenario
  /\ top_k = 5

\* two matches, one per sentence, in this order, each with one matching keyword
ScenarioMatches ==
  /\ Len(ret) = 2
  /\ ret[1].text = SentHomebound /\ ret[1].score.num = 1
  /\ ret[2].text = SentSkilled /\ ret[2].score.num = 1

\* C6 as stated: the scenario returns the two sentences with scores 1/6 and 1/7.
C6_ScenarioAsStated ==
  ScenarioCall =>
    /\ ScenarioMatches
    /\ ScoreEq(ret[1].score, [num |-> 1, den |-> 6])
    /\ ScoreEq(ret[2].score, [num |-> 1, den |-> 7])

\* C6, amended: the scenario returns the two sentences, one matching keyword
\* each, with scores 1/5 ("The patient is homebound." has 4 words) and 1/7,
\* the first ranked before the second.
C6_ScenarioScores ==
  ScenarioCall =>
    /\ ScenarioMatches
    /\ ScoreEq(ret[1].score, [num |-> 1, den |-> 5])
    /\ ScoreEq(ret[2].score, [num |-> 1, den |-> 7])

\* the call of the scenario has returned its two matches
C6_Witness == ScenarioCall /\ Len(ret) = 2

C8_NoDocumentsNoMatches == (called /\ pdfs_in = <<>>) => ret = <<>>

\* a query with keywords was run on the empty mapping
C8_Witness == called /\ pdfs_in = <<>> /\ Keywords(context) # <<>> /\ ret = <<>>

\* C9: every returned match has a score strictly greater than 0, and its text
\* contains at least one of the keywords of the query.
C9_PositiveScores ==
  called =>
    \A i \in DOMAIN ret :
      /\ ScoreLess(Zero, ret[i].score)
      /\ \E kw \in Range(Keywords(context)) : Contains(Lower(ret[i].text), kw)

\* matches were returned from documents that also hold a sentence with none of
\* the keywords
C9_Witness ==
  /\ called /\ ret # <<>>
  /\ \E d \in DOMAIN pdfs : \E p \in DOMAIN pdfs[d].info.page_texts :
       /\ pdfs[d].info.page_texts[p] # <<>>
       /\ \E sent \in Range(SplitSentences(pdfs[d].info.page_texts[p])) :
            /\ sent # <<>>
            /\ CountHits(Lower(sent), Keywords(context)) = 0

\* C10: a call repeated with the same documents mapping, query and top_k
\* returns the same multiset of matches as the call before it.
C10_RepeatSameMatches == repeated => BagOf(ret) = BagOf(prev_ret)

\* the first of the two calls extracted the page texts from a reader, the
\* repeated one found them in place, and matches were returned
C10_Witness ==
  /\ repeated /\ prev_reader_calls > 0 /\ reader_calls = 0
  /\ ret # <<>>
  /\ \E i \in DOMAIN ret : ret[i].page > 0

----------------------------------------------------------------------------
(* What a call owes to each page of the documents passed in *)

\* kw occurs in s, character by character
Occurs(kw, s) ==
  \E i \in 1..(Len(s) - Len(kw) + 1) : \A n \in 1..Len(kw) : s[i + n - 1] = kw[n]

\* the sentence holds one of the words of the query, case ignored
Qualifies(sent, ctx) ==
  \E w \in Range(FindAllWords(ctx)) : Occurs(Lower(w), Lower(sent))

\* the trimmed sentences of a page text that hold a word of the query, in order
QualifyingTexts(text, ctx) ==
  LET hits == SelectSeq(SplitSentences(text), LAMBDA u : Qualifies(u, ctx))
  IN  [i \in DOMAIN hits |-> Strip(hits[i])]

\* QualifyingTexts for the page texts and queries of the model
Expected == [t \in PageTexts |-> [q \in Queries |-> QualifyingTexts(t, q)]]

\* the number of pages a call goes through in a document
NumPages(info) ==
  IF info.has_page_texts THEN Len(info.page_texts)
  ELSE IF info.has_reader THEN info.pages ELSE 0

\* page p (one-based) has no text to give: the reader has no such page, raises on
\* it or returns None
PageFails(info, p) ==
  /\ ~info.has_page_texts
  /\ (p > Len(info.reader) \/ info.reader[p].kind # "text")

\* the text of page p (one-based) of a document, "" where there is none to get
TextOf(info, p) ==
  IF info.has_page_texts THEN info.page_texts[p]
  ELSE IF PageFails(info, p) THEN <<>> ELSE info.reader[p].text

\* the texts of the matches emitted for page p (one-based) of document d, in order
EmittedTexts(d, p) ==
  LET ms == SelectSeq(results, LAMBDA m : m.pdf_name = pdfs_in[d].key /\ m.page = p - 1)
  IN  [i \in DOMAIN ms |-> ms[i].text]

\* the call ran the loops over the documents
Scanned == called /\ pdfs_in # <<>> /\ Keywords(context) # <<>>

\* C11: no exception propagates out of a call; a page whose extraction raises or
\* yields nothing is stored as the empty string and contributes no match, and
\* the pages after it and the documents after its document are still scanned:
\* each of them is extracted and its qualifying sentences are emitted.
C11_ExtractionFailureAbsorbed ==
  /\ ~raised
  /\ Scanned =>
       \A d \in DOMAIN pdfs_in : \A p \in 1..NumPages(pdfs_in[d].info) :
         PageFails(pdfs_in[d].info, p) =>
           /\ pdfs[d].info.has_page_texts
           /\ Len(pdfs[d].info.page_texts) = pdfs_in[d].info.pages
           /\ pdfs[d].info.page_texts[p] = <<>>
           /\ EmittedTexts(d, p) = <<>>
           /\ \A q \in (p + 1)..NumPages(pdfs_in[d].info) :
                /\ pdfs[d].info.page_texts[q] = TextOf(pdfs_in[d].info, q)
                /\ EmittedTexts(d, q) = Expected[TextOf(pdfs_in[d].info, q)][context]
           /\ \A e \in (d + 1)..Len(pdfs_in) : \A q \in 1..NumPages(pdfs_in[e].info) :
                EmittedTexts(e, q) = Expected[TextOf(pdfs_in[e].info, q)][context]

\* extract_text() raised on a page of a document, and matches were emitted for a
\* later page of that document and for a later document
C11_Witness ==
  /\ Scanned /\ ~raised
  /\ \E d \in DOMAIN pdfs_in : \E p \in 1..NumPages(pdfs_in[d].info) :
       /\ PageFails(pdfs_in[d].info, p)
       /\ p <= Len(pdfs_in[d].info.reader)
       /\ pdfs_in[d].info.reader[p].kind = "raise"
       /\ \E q \in (p + 1)..NumPages(pdfs_in[d].info) : EmittedTexts(d, q) # <<>>
       /\ \E e \in (d + 1)..Len(pdfs_in) : \E q \in 1..NumPages(pdfs_in[e].info) :
            EmittedTexts(e, q) # <<>>

\* C12: an empty page text at index i contributes no match and neither stops
\* nor shifts the scan: the qualifying sentences of every later page j of the
\* document are emitted with page index j, its position among all the pages,
\* and every emitted match carries the index of the page its sentence is on.
C12_EmptyPageSkipped ==
  Scanned =>
    /\ \A d \in DOMAIN pdfs_in : \A p \in 1..NumPages(pdfs_in[d].info) :
         TextOf(pdfs_in[d].info, p) = <<>> =>
           /\ EmittedTexts(d, p) = <<>>
           /\ \A q \in (p + 1)..NumPages(pdfs_in[d].info) :
                EmittedTexts(d, q) = Expected[TextOf(pdfs_in[d].info, q)][context]
    /\ \A i \in DOMAIN results : \E d \in DOMAIN pdfs_in :
         /\ pdfs_in[d].key = results[i].pdf_name
         /\ results[i].page + 1 \in 1..NumPages(pdfs_in[d].info)
         /\ results[i].text \in
              Range(Expected[TextOf(pdfs_in[d].info, results[i].page + 1)][context])

\* the page at index 2 of a document is empty and the page at index 3 of that
\* document gave matches
C12_Witness ==
  /\ Scanned
  /\ \E d \in DOMAIN pdfs_in :
       /\ NumPages(pdfs_in[d].info) >= 4
       /\ TextOf(pdfs_in[d].info, 3) = <<>>
       /\ EmittedTexts(d, 4) # <<>>
       /\ \E i \in DOMAIN ret : ret[i].pdf_name = pdfs_in[d].key /\ ret[i].page = 3

\* the words of the query, lowercased, that occur somewhere in the text
WordsFound(text, ctx) ==
  {Lower(w) : w \in {v \in Range(FindAllWords(ctx)) : Occurs(Lower(v), Lower(text))}}

\* C13: matching is substring containment on the lowercased unit, case ignored
\* on both sides: the sentences emitted for a page are exactly those in which a
\* word of the query occurs somewhere, inside a larger word included, and every
\* word of the query that occurs in the unit counts as a hit.
C13_SubstringMatching ==
  Scanned =>
    /\ \A d \in DOMAIN pdfs_in : \A p \in 1..NumPages(pdfs_in[d].info) :
         EmittedTexts(d, p) = Expected[TextOf(pdfs_in[d].info, p)][context]
    /\ \A i \in DOMAIN results :
         results[i].score.num >= Cardinality(WordsFound(results[i].text, context))

\* "home" matched "The patient is homebound.", where it is no word of its own,
\* and a sentence that has it as "Home" only
C13_Witness ==
  /\ Scanned /\ context = QHome
  /\ \E i \in DOMAIN results :
       /\ results[i].text = SubSeq(TxtScenario, 1, 25)
       /\ QHome \notin Range(FindAllWords(Lower(results[i].text)))
  /\ \E i \in DOMAIN results :
       /\ ~Occurs(QHome, results[i].text)
       /\ Occurs(QHome, Lower(results[i].text))

\* C15: the score of every emitted match is the number of distinct query
\* keywords that occur in the lowercased unit, divided by the number of
\* whitespace-delimited tokens of the unit plus 1; the denominator is at least 1.
C15_ScoreIsDistinctHitsOverWords ==
  called =>
    \A i \in DOMAIN results :
      /\ results[i].score.den >= 1
      /\ ScoreEq(results[i].score,
                 [num |-> Cardinality(WordsFound(results[i].text, context)),
                  den |-> WordCount(results[i].text) + 1])

Alphanumerics == Range(LowerCase) \cup Range(UpperCase) \cup Digits

\* C16: every keyword of the query is made of lowercase letters and digits
\* only; every other character of the query, the underscore included, separates
\* tokens, so a query without a letter or digit has no keyword.
C16_KeywordsAlphanumeric ==
  called =>
    /\ \A kw \in Range(Keywords(context)) :
         \A c \in Range(kw) : c \in Range(LowerCase) \cup Digits
    /\ (\A c \in Range(context) : c \notin Alphanumerics) => Keywords(context) = <<>>

\* C18: every returned match names a key of the documents mapping and the
\* zero-based index of a page of that document, its text is a sentence of that
\* page in its original case with the whitespace at both ends removed, and it
\* neither starts nor ends with whitespace.
C18_Provenance ==
  called =>
    \A i \in DOMAIN ret :
      /\ ret[i].text # <<>>
      /\ ~IsSpace(ret[i].text[1])
      /\ ~IsSpace(ret[i].text[Len(ret[i].text)])
      /\ \E d \in DOMAIN pdfs_in :
           /\ pdfs_in[d].key = ret[i].pdf_name
           /\ ret[i].page >= 0
           /\ ret[i].page + 1 <= NumPages(pdfs_in[d].info)
           /\ Occurs(ret[i].text, TextOf(pdfs_in[d].info, ret[i].page + 1))
           /\ \E u \in Range(SplitSentences(TextOf(pdfs_in[d].info, ret[i].page + 1))) :
                \E k \in 0..(Len(u) - Len(ret[i].text)) :
                  /\ SubSeq(u, k + 1, k + Len(ret[i].text)) = ret[i].text
                  /\ \A n \in 1..k : IsSpace(u[n])
                  /\ \A n \in (k + Len(ret[i].text) + 1)..Len(u) : IsSpace(u[n])

\* a returned match from a page other than the first, of the second document,
\* whose sentence had whitespace at its end and an uppercase letter
C18_Witness ==
  /\ called
  /\ \E i \in DOMAIN ret :
       /\ ret[i].page > 0
       /\ Len(pdfs_in) >= 2 /\ ret[i].pdf_name = pdfs_in[2].key
       /\ ret[i].text # Lower(ret[i].text)
       /\ \E u \in Range(SplitSentences(TextOf(pdfs_in[2].info, ret[i].page + 1))) :
            u # ret[i].text /\ Occurs(ret[i].text, u) /\ IsSpace(u[Len(u)])

\* the match with fewer words, of two with the same number of matching keywords
ShorterOfEqualHits(m1, m2) ==
  /\ Cardinality(WordsFound(m1.text, context)) = Cardinality(WordsFound(m2.text, context))
  /\ WordCount(m1.text) < WordCount(m2.text)

\* C19: of two units with the same number of matching keywords the one with
\* fewer words has the strictly higher score and, when both are returned, comes
\* before the longer one.
C19_ShorterScoresHigher ==
  called =>
    /\ \A i, j \in DOMAIN results :
         ShorterOfEqualHits(results[i], results[j]) =>
           ScoreLess(results[j].score, results[i].score)
    /\ \A i, j \in DOMAIN ret :
         ShorterOfEqualHits(ret[i], ret[j]) => i < j

\* the matches of a sequence whose score equals sc, in their order
TiedIn(seq, sc) == SelectSeq(seq, LAMBDA m : ScoreEq(m.score, sc))

\* the position of a key in the documents mapping passed in
DocIndex(name) == CHOOSE d \in DOMAIN pdfs_in : pdfs_in[d].key = name

\* C20: matches with equal scores are returned in scan order, which is the
\* order of the documents in the mapping, then the page index, then the
\* position of the sentence in the page; of the matches tied on a score the
\* truncation keeps the earliest scanned.
C20_TiesInScanOrder ==
  called =>
    /\ \A i \in DOMAIN ret :
         LET kept == TiedIn(ret, ret[i].score)
             tied == TiedIn(results, ret[i].score)
         IN  Len(kept) <= Len(tied) /\ kept = SubSeq(tied, 1, Len(kept))
    /\ \A i, j \in DOMAIN results :
         i < j =>
           \/ DocIndex(results[i].pdf_name) < DocIndex(results[j].pdf_name)
           \/ /\ results[i].pdf_name = results[j].pdf_name
              /\ results[i].page <= results[j].page
    /\ Scanned =>
         \A d \in DOMAIN pdfs_in : \A p \in 1..NumPages(pdfs_in[d].info) :
           EmittedTexts(d, p) = Expected[TextOf(pdfs_in[d].info, p)][context]

\* returned matches of two documents are tied on a score, as are two of one page,
\* and a later match with that score was cut off
C20_Witness ==
  /\ called
  /\ \E i, j \in DOMAIN ret :
       /\ i < j /\ ScoreEq(ret[i].score, ret[j].score)
       /\ ret[i].pdf_name # ret[j].pdf_name
       /\ Len(TiedIn(ret, ret[i].score)) < Len(TiedIn(results, ret[i].score))
  /\ \E i, j \in DOMAIN ret :
       /\ i < j /\ ScoreEq(ret[i].score, ret[j].score)
       /\ ret[i].pdf_name = ret[j].pdf_name /\ ret[i].page = ret[j].page
       /\ ret[i].text # ret[j].text

\* the reader invocations made for the document with this key, over all calls
InvocationsOf(key) == SelectSeq(reader_log, LAMBDA m : m.pdf_name = key)

\* one invocation for each index 0..pages-1 of the document, in order
OncePerIndex(doc) ==
  [n \in 1..doc.info.pages |-> [pdf_name |-> doc.key, page |-> n - 1]]

----------------------------------------------------------------------------
(* The sentence splitter on its own: every short page text is split *)

SplitAlphabet == {"a", ".", "!", "?", " ", "\n"}

\* the non-empty page texts of up to MaxTextLen characters
ShortTexts == UNION {[1..n -> SplitAlphabet] : n \in 1..MaxTextLen}

InitSplit ==
  /\ split_text \in ShortTexts
  /\ units = <<>>
  /\ pdfs = <<>>
  /\ context = <<>>
  /\ top_k = DefaultTopK
  /\ results = <<>>
  /\ ret = <<>>
  /\ pdfs_in = <<>>
  /\ reader_calls = 0
  /\ pages_scanned = 0
  /\ called = FALSE
  /\ repeated = FALSE
  /\ prev_ret = <<>>
  /\ prev_reader_calls = 0
  /\ raised = FALSE
  /\ calls = NoCalls
  /\ pdfs_first = pdfs
  /\ reader_log = <<>>
  /\ users_file = FileMissing
  /\ users_before = FileMissing
  /\ auth_call = NoAuthCall
  /\ last_password = NoUsers

\* sentences = re.split(r'(?<=[.!?])\s+', text)
Split ==
  /\ units = <<>>
  /\ units' = SplitSentences(split_text)
  /\ UNCHANGED <<split_text, pdfs, context, top_k, results, ret, pdfs_in, reader_calls,
                 pages_scanned, called, repeated, prev_ret, prev_reader_calls, raised,
                 calls, pdfs_first, reader_log,
                 users_file, users_before, auth_call, last_password>>

NextSplit == Split

SpecSplit == InitSplit /\ [][NextSplit]_vars

RECURSIVE Flatten(_)
Flatten(ss) == IF ss = <<>> THEN <<>> ELSE Head(ss) \o Flatten(Tail(ss))

\* the characters of s that are not whitespace, in order
NonSpace(s) == SelectSeq(s, LAMBDA c : ~IsSpace(c))

\* the positions of a text where whitespace follows one of . ! ?
Boundaries(t) == {p \in 2..Len(t) : IsTerminator(t[p - 1]) /\ IsSpace(t[p])}

\* C17: a page text is split exactly at each maximal run of whitespace that
\* follows one of . ! ?: there is one more unit than such places, the run is
\* removed (no later unit starts with whitespace), no unit holds one of these
\* characters followed by whitespace, every unit but the last ends with one of
\* them, and the units joined hold the non-whitespace characters of the page
\* in their order.
C17_SplitAtTerminatorWhitespace ==
  units # <<>> =>
    /\ Len(units) = Cardinality(Boundaries(split_text)) + 1
    /\ \A n \in DOMAIN units : Boundaries(units[n]) = {}
    /\ \A n \in 1..(Len(units) - 1) :
         units[n] # <<>> /\ IsTerminator(units[n][Len(units[n])])
    /\ \A n \in 2..Len(units) : units[n] = <<>> \/ ~IsSpace(units[n][1])
    /\ NonSpace(Flatten(units)) = NonSpace(split_text)

\* a text with a run of two whitespace characters after a terminator was split
\* in two units with text in both
C17_Witness ==
  /\ Len(units) = 2 /\ units[1] # <<>> /\ units[2] # <<>>
  /\ \E p \in Boundaries(split_text) : p < Len(split_text) /\ IsSpace(split_text[p + 1])

----------------------------------------------------------------------------
(* Two calls running concurrently on one documents mapping.  A step is a read *)
(* or a write of the shared mapping together with the local work that follows *)
(* it; pdfs is the shared mapping and pdfs_in the mapping as the calls got it *)

ConcQueries == {QPunct, QHome, QMixed}

ConcTopKs == {1, DefaultTopK}

InitConc ==
  /\ pdfs \in DocMappings
  /\ pdfs_in = pdfs
  /\ calls \in [Procs -> {NewCall(ctx, k) : ctx \in ConcQueries, k \in ConcTopKs}]
  /\ context = <<>>
  /\ top_k = DefaultTopK
  /\ results = <<>>
  /\ ret = <<>>
  /\ reader_calls = 0
  /\ pages_scanned = 0
  /\ called = FALSE
  /\ repeated = FALSE
  /\ prev_ret = <<>>
  /\ prev_reader_calls = 0
  /\ raised = FALSE
  /\ split_text = <<>>
  /\ units = <<>>
  /\ pdfs_first = pdfs
  /\ reader_log = <<>>
  /\ users_file = FileMissing
  /\ users_before = FileMissing
  /\ auth_call = NoAuthCall
  /\ last_password = NoUsers

ConcUnchanged ==
  UNCHANGED <<pdfs_in, context, top_k, results, ret, reader_calls, pages_scanned,
              called, repeated, prev_ret, prev_reader_calls, raised, split_text, units,
              pdfs_first, reader_log,
              users_file, users_before, auth_call, last_password>>

\* the early returns, keywords = re.findall(...), results = []
Start(p) ==
  /\ calls[p].pc = "start"
  /\ calls' = [calls EXCEPT ![p] =
       IF NoInput(pdfs, calls[p].context) \/ NoKeywords(Keywords(calls[p].context))
       THEN [@ EXCEPT !.pc = "done", !.ret = EmptyResult]
       ELSE [@ EXCEPT !.pc = "doc", !.d = 1, !.results = <<>>]]
  /\ UNCHANGED pdfs
  /\ ConcUnchanged

\* the document loop is at a document with neither page_texts nor reader: continue
SkipDoc(p) ==
  /\ calls[p].pc = "doc"
  /\ calls[p].d <= Len(pdfs)
  /\ Skipped(pdfs[calls[p].d].info)
  /\ calls' = [calls EXCEPT ![p].d = @ + 1]
  /\ UNCHANGED pdfs
  /\ ConcUnchanged

\* page_texts = info.get("page_texts") finds a list; the page loop runs over it
ReadAndScan(p) ==
  LET d == calls[p].d IN
  /\ calls[p].pc = "doc"
  /\ d <= Len(pdfs)
  /\ pdfs[d].info.has_page_texts
  /\ calls' = [calls EXCEPT ![p] =
       [@ EXCEPT !.d = d + 1,
                 !.results = @ \o ScanPages(pdfs[d].key, pdfs[d].info.page_texts, 1,
                                            Keywords(calls[p].context)),
                 !.saw_partial =
                    @ \/ Len(pdfs[d].info.page_texts) # NumPages(pdfs_in[d].info)]]
  /\ UNCHANGED pdfs
  /\ ConcUnchanged

\* page_texts = info.get("page_texts") finds None and there is a reader: page_texts = []
BeginExtract(p) ==
  /\ calls[p].pc = "doc"
  /\ calls[p].d <= Len(pdfs)
  /\ Populates(pdfs[calls[p].d].info)
  /\ calls' = [calls EXCEPT ![p] = [@ EXCEPT !.pc = "extract", !.page_texts = <<>>]]
  /\ UNCHANGED pdfs
  /\ ConcUnchanged

\* info["page_texts"] = page_texts before the loop: the list is shared while it grows
PublishedWhileExtracting(info, partial) ==
  [info EXCEPT !.has_page_texts = TRUE, !.page_texts = partial]

\* the record of the document while the extraction loop runs: not written to
WhileExtracting(info, partial) == info

\* one iteration of the loop over range(pages): page_texts.append(text)
Extract(p) ==
  LET d    == calls[p].d
      more == Append(calls[p].page_texts,
                     ExtractText(pdfs[d].info.reader, Len(calls[p].page_texts)))
  IN
  /\ calls[p].pc = "extract"
  /\ Len(calls[p].page_texts) < pdfs[d].info.pages
  /\ calls' = [calls EXCEPT ![p] =
       [@ EXCEPT !.page_texts = more, !.extracted = @ + 1]]
  /\ pdfs' = [pdfs EXCEPT ![d].info = WhileExtracting(@, more)]
  /\ ConcUnchanged

\* info["page_texts"] = page_texts after the loop; the page loop runs over the list
Store(p) ==
  LET d == calls[p].d IN
  /\ calls[p].pc = "extract"
  /\ Len(calls[p].page_texts) >= pdfs[d].info.pages
  /\ pdfs' = [pdfs EXCEPT ![d].info =
                [@ EXCEPT !.has_page_texts = TRUE, !.page_texts = calls[p].page_texts]]
  /\ calls' = [calls EXCEPT ![p] =
       [@ EXCEPT !.pc = "doc", !.d = d + 1, !.page_texts = <<>>,
                 !.results = @ \o ScanPages(pdfs[d].key, calls[p].page_texts, 1,
                                            Keywords(calls[p].context))]]
  /\ ConcUnchanged

\* after the last document: results.sort(...); return results[:top_k]
Return(p) ==
  /\ calls[p].pc = "doc"
  /\ calls[p].d > Len(pdfs)
  /\ calls' = [calls EXCEPT ![p] =
       [@ EXCEPT !.pc = "done",
                 !.ret = Truncate(SortByScore(calls[p].results), calls[p].top_k)]]
  /\ UNCHANGED pdfs
  /\ ConcUnchanged

NextConc ==
  \E p \in Procs :
    \/ Start(p)
    \/ SkipDoc(p)
    \/ ReadAndScan(p)
    \/ BeginExtract(p)
    \/ Extract(p)
    \/ Store(p)
    \/ Return(p)

SpecConc == InitConc /\ [][NextConc]_vars

\* C14: of two calls that run concurrently on one shared documents mapping, in
\* any interleaving of their steps, each returns what it returns when it runs
\* alone on the mapping, and neither reads a page-text list that is not
\* complete: the shared record of a document never holds a partly built list.
C14_ConcurrentCallsIndependent ==
  /\ \A p \in Procs :
       /\ ~calls[p].saw_partial
       /\ calls[p].pc = "done" =>
            calls[p].ret = FindContextMatches(pdfs_in, calls[p].context, calls[p].top_k).ret
  /\ \A d \in DOMAIN pdfs :
       pdfs[d].info.has_page_texts =>
         Len(pdfs[d].info.page_texts) = NumPages(pdfs_in[d].info)

\* both calls have returned matches, with different queries, and both have
\* extracted the page texts of a document that came with a reader only
C14_Witness ==
  /\ \A p \in Procs : calls[p].pc = "done" /\ calls[p].ret # <<>>
  /\ \A p \in Procs : calls[p].extracted > 0
  /\ calls[1].context # calls[2].context
  /\ \E d \in DOMAIN pdfs_in : Populates(pdfs_in[d].info)

----------------------------------------------------------------------------
(* auth.py: the user store *)

\* 'qa_ai_default_salt_change_this'
PasswordSalt ==
  <<"q", "a", "_", "a", "i", "_", "d", "e", "f", "a", "u", "l", "t", "_", "s", "a", "l", "t", "_", "c", "h", "a", "n", "g", "e", "_", "t", "h", "i", "s">>

\* 'Chaitanya'
DefaultUser == <<"C", "h", "a", "i", "t", "a", "n", "y", "a">>

\* 'Password@123'
DefaultPassword == <<"P", "a", "s", "s", "w", "o", "r", "d", "@", "1", "2", "3">>

\* 'bob'
OtherUser == <<"b", "o", "b">>

\* 'pw'
OtherPassword == <<"p", "w">>

Usernames == {<<>>, DefaultUser, OtherUser}

Passwords == {<<>>, DefaultPassword, OtherPassword}

\* _hash_password: the SHA-256 digest of salt + password, kept as the digest of
\* that string (two different strings have different digests)
HashPassword(password) == [sha256 |-> PasswordSalt \o password]

\* load_users: {} when the file is missing or cannot be read as JSON
LoadUsers(file) ==
  IF ~file.exists THEN NoUsers
  ELSE IF ~file.valid THEN NoUsers ELSE file.users

\* save_users: the file holds the dict as JSON
SaveUsers(users) == [exists |-> TRUE, valid |-> TRUE, users |-> users]

\* users[username] = {"pw_hash": _hash_password(password)}
SetEntry(users, username, password) ==
  [u \in DOMAIN users \cup {username} |->
     IF u = username THEN [pw_hash |-> HashPassword(password)] ELSE users[u]]

\* if not username or not password
MissingArgument(username, password) == username = <<>> \/ password = <<>>

\* the test for an existing user left out
UserExistsIgnored(users, username) == FALSE

\* if username in users
UserExists(users, username) == username \in DOMAIN users

\* create_user(username, password): the file it leaves and what it raises
CreateUserOutcome(file, username, password) ==
  IF MissingArgument(username, password)
  THEN [file |-> file, raised |-> "ValueError"]
  ELSE IF UserExists(LoadUsers(file), username)
       THEN [file |-> file, raised |-> "ValueError"]
       ELSE [file   |-> SaveUsers(SetEntry(LoadUsers(file), username, password)),
             raised |-> "none"]

\* verify_user(username, password): what it returns
VerifyUserResult(file, username, password) ==
  IF username \notin DOMAIN LoadUsers(file)
  THEN FALSE
  ELSE LoadUsers(file)[username].pw_hash = HashPassword(password)

\* set_password(username, password): the file it leaves
SetPasswordOutcome(file, username, password) ==
  SaveUsers(SetEntry(LoadUsers(file), username, password))

\* the password last stored for username by a call that went through
Remember(username, password) ==
  [u \in DOMAIN last_password \cup {username} |->
     IF u = username THEN password ELSE last_password[u]]

AuthUnchanged ==
  UNCHANGED <<pdfs, context, top_k, results, ret, pdfs_in, reader_calls, pages_scanned,
              called, repeated, prev_ret, prev_reader_calls, raised, split_text, units,
              calls, pdfs_first, reader_log>>

InitAuth ==
  /\ users_file \in {FileMissing, FileCorrupt}
  /\ users_before = users_file
  /\ auth_call = NoAuthCall
  /\ last_password = NoUsers
  /\ pdfs = <<>>
  /\ context = <<>>
  /\ top_k = DefaultTopK
  /\ results = <<>>
  /\ ret = <<>>
  /\ pdfs_in = <<>>
  /\ reader_calls = 0
  /\ pages_scanned = 0
  /\ called = FALSE
  /\ repeated = FALSE
  /\ prev_ret = <<>>
  /\ prev_reader_calls = 0
  /\ raised = FALSE
  /\ split_text = <<>>
  /\ units = <<>>
  /\ calls = NoCalls
  /\ pdfs_first = pdfs
  /\ reader_log = <<>>

\* create_user(username, password)
CreateUser(username, password) ==
  \E out \in {CreateUserOutcome(users_file, username, password)} :
    /\ users_before' = users_file
    /\ users_file' = out.file
    /\ auth_call' = [op |-> "create_user", username |-> username,
                     password |-> password, raised |-> out.raised, ret |-> FALSE]
    /\ last_password' =
         IF out.raised = "none" THEN Remember(username, password) ELSE last_password
    /\ AuthUnchanged

\* verify_user(username, password)
VerifyUser(username, password) ==
  /\ users_before' = users_file
  /\ auth_call' = [op |-> "verify_user", username |-> username,
                   password |-> password, raised |-> "none",
                   ret |-> VerifyUserResult(users_file, username, password)]
  /\ UNCHANGED <<users_file, last_password>>
  /\ AuthUnchanged

\* set_password(username, password)
SetPassword(username, password) ==
  /\ users_before' = users_file
  /\ users_file' = SetPasswordOutcome(users_file, username, password)
  /\ auth_call' = [op |-> "set_password", username |-> username,
                   password |-> password, raised |-> "none", ret |-> FALSE]
  /\ last_password' = Remember(username, password)
  /\ AuthUnchanged

\* the application's start: create_user("Chaitanya", "Password@123") inside
\* try / except Exception: pass
CreateDefaultUser ==
  \E out \in {CreateUserOutcome(users_file, DefaultUser, DefaultPassword)} :
    /\ users_before' = users_file
    /\ users_file' = out.file
    /\ auth_call' = [op |-> "default_user", username |-> DefaultUser,
                     password |-> DefaultPassword, raised |-> "none", ret |-> FALSE]
    /\ last_password' =
         IF out.raised = "none"
         THEN Remember(DefaultUser, DefaultPassword) ELSE last_password
    /\ AuthUnchanged

NextAuth ==
  \/ \E u \in Usernames : \E p \in Passwords : CreateUser(u, p)
  \/ \E u \in Usernames : \E p \in Passwords : VerifyUser(u, p)
  \/ \E u \in Usernames : \E p \in Passwords : SetPassword(u, p)
  \/ CreateDefaultUser

SpecAuth == InitAuth /\ [][NextAuth]_vars

\* C22: create_user never overwrites an existing account. After any sequence of
\* create_user, set_password and verify_user calls, a create_user(u, p) with u
\* already in the store, or with an empty username or password, raises
\* ValueError and leaves the file as it was; and verify_user(u, q) returns true
\* exactly when q is the password last stored for u by a call that went through.
C22_CreateNeverOverwrites ==
  /\ (/\ auth_call.op = "create_user"
      /\ \/ auth_call.username \in DOMAIN LoadUsers(users_before)
         \/ auth_call.username = <<>>
         \/ auth_call.password = <<>>)
       => /\ auth_call.raised = "ValueError"
          /\ users_file = users_before
  /\ \A u \in Usernames : \A q \in Passwords :
       VerifyUserResult(users_file, u, q) =
         (u \in DOMAIN last_password /\ last_password[u] = q)
  /\ auth_call.op = "verify_user" =>
       auth_call.ret = (/\ auth_call.username \in DOMAIN last_password
                        /\ last_password[auth_call.username] = auth_call.password)

\* create_user was called with a new password for a user whose password had been
\* changed by set_password: it raised, and verify_user still accepts the
\* password set last and not the one create_user was given
C22_Witness ==
  /\ auth_call.op = "create_user" /\ auth_call.raised = "ValueError"
  /\ auth_call.username \in DOMAIN LoadUsers(users_before)
  /\ auth_call.password = DefaultPassword
  /\ last_password[auth_call.username] = OtherPassword
  /\ VerifyUserResult(users_file, auth_call.username, OtherPassword)
  /\ ~VerifyUserResult(users_file, auth_call.username, DefaultPassword)

====
